---- MODULE Spec2Model ----
(***************************************************************************)
(* The request / response / error / retry pipeline of ApiClient            *)
(* (src/src/api/api-client.ts) together with the Logger it calls           *)
(* (src/src/utils/logger.ts).                                              *)
(*                                                                         *)
(* Texts (error messages, status texts, serialised bodies) are sequences   *)
(* of one-character strings, so that template literals are concatenations  *)
(* and "contains" is a real substring test.                                *)
(***************************************************************************)
EXTENDS Integers, Sequences, FiniteSets, TLC

VARIABLES
    loggerLevel,   \* Logger.level                       (logger.ts:11)
    call,          \* the verb call in progress on the client
    outcome,       \* what the verb call gave back to its caller
    retry,         \* the withRetry call in progress
    config,        \* per client instance: baseURL field and axios defaults
    requests,      \* the verb calls issued concurrently, per call site
    written,       \* per client instance: what the setters were last given
    mockServer     \* the MockServer instance and the listener on its port

clientVars == <<config, requests, written>>

vars ==
    <<loggerLevel, call, outcome, retry, config, requests, written, mockServer>>

-----------------------------------------------------------------------------
(* Bounds                                                                  *)

\* largest maxAttempts handed to withRetry
MaxAttemptsBound == 4

\* number of verb calls that can be in flight at the same time
MaxCalls == 2

\* start() calls of the MockServer that can be in progress together
MaxStarts == 3

-----------------------------------------------------------------------------
(* Defaults of the program                                                 *)

\* testConfig.apiRetryAttempts when API_RETRY_ATTEMPTS is not set
apiRetryAttempts == 3

\* default of withRetry's delay parameter
DefaultDelay == 1000

\* testConfig.apiTimeout when API_TIMEOUT is not set
apiTimeout == 30000

-----------------------------------------------------------------------------
(* Text literals of the source                                             *)

API_ERROR == <<"A","P","I"," ","E","r","r","o","r",":"," ">>
NETWORK_ERROR == <<"N","e","t","w","o","r","k"," ","E","r","r","o","r",":"," ","N","o"," ","r","e","s","p","o","n","s","e"," ","r","e","c","e","i","v","e","d">>
REQUEST_ERROR == <<"R","e","q","u","e","s","t"," ","E","r","r","o","r",":"," ">>
SEP == <<" ","-"," ">>

\* message of the TypeError JSON.stringify throws on a cyclic object
CIRCULAR_MSG == <<"C","o","n","v","e","r","t","i","n","g"," ","c","i","r","c","u","l","a","r"," ","s","t","r","u","c","t","u","r","e"," ","t","o"," ","J","S","O","N">>

\* messages a transport failure can carry
TIMEOUT_MSG == <<"t","i","m","e","o","u","t"," ","o","f"," ","3","0","0","0","0","m","s"," ","e","x","c","e","e","d","e","d">>
NETWORK_MSG == <<"N","e","t","w","o","r","k"," ","E","r","r","o","r">>
LOOKALIKE_MSG == <<"A","P","I"," ","E","r","r","o","r",":"," ","4","0","4">>

FailureMessages == {TIMEOUT_MSG, NETWORK_MSG, LOOKALIKE_MSG}

NOT_FOUND == <<"N","o","t"," ","F","o","u","n","d">>
OK_TEXT == <<"O","K">>
EMPTY_TEXT == <<>>

StatusTexts == {NOT_FOUND, OK_TEXT, EMPTY_TEXT}

-----------------------------------------------------------------------------
(* Text helpers                                                            *)

Digit(d) == CASE d = 0 -> "0" [] d = 1 -> "1" [] d = 2 -> "2" [] d = 3 -> "3"
              [] d = 4 -> "4" [] d = 5 -> "5" [] d = 6 -> "6" [] d = 7 -> "7"
              [] d = 8 -> "8" [] d = 9 -> "9"

RECURSIVE NumberToString(_)
\* `${n}` for a non-negative integer n
NumberToString(n) ==
    IF n < 10 THEN <<Digit(n)>>
    ELSE NumberToString(n \div 10) \o <<Digit(n % 10)>>

\* String.prototype.includes
Contains(text, part) ==
    \E i \in 1..(Len(text) - Len(part) + 1) :
        SubSeq(text, i, i + Len(part) - 1) = part

StartsWith(text, part) ==
    /\ Len(part) <= Len(text)
    /\ SubSeq(text, 1, Len(part)) = part

-----------------------------------------------------------------------------
(* JavaScript values that reach JSON.stringify                             *)

\* decoded response payloads (the client never asks for a stream, so what
\* the transport puts into response.data came out of JSON.parse or is text)
Bodies == {"emptyObject", "errorObject", "userObject", "emptyString"}

\* data argument of post / put / patch
RequestData == {"undefined", "payload", "cyclicPayload"}

\* error.request as set by the transport: the Node http adapter hands over
\* its ClientRequest (cyclic through socket._httpMessage), the browser
\* adapter its XMLHttpRequest (no own enumerable properties)
Requests == {"ClientRequest", "XMLHttpRequest"}

NoRequest == "noRequest"

\* JavaScript truthiness of the values above
Truthy(v) == v \notin {"undefined", "emptyString", NoRequest}

\* JSON.stringify throws a TypeError on these
Cyclic(v) == v \in {"cyclicPayload", "ClientRequest", "cyclicObject"}

\* an object literal one of whose properties holds d, e.g. { status, data: d }
ObjectWith(d) == IF Cyclic(d) THEN "cyclicObject" ELSE "plainObject"

\* JSON.stringify(v) for the values it does not throw on
JSONstringify(v) ==
    CASE v = "emptyObject" -> <<"{","}">>
      [] v = "errorObject" -> <<"{","\"","e","r","r","o","r","\"",":","\"","x","\"","}">>
      [] v = "userObject"  -> <<"{","\"","i","d","\"",":","2","}">>
      [] v = "emptyString" -> <<"\"","\"">>
      [] v = "payload"     -> <<"{","\"","n","a","m","e","\"",":","\"","a","\"","}">>
      [] v = "XMLHttpRequest" -> <<"{","}">>
      [] v = "errorInstance"  -> <<"{","}">>
      [] v = "plainObject"    -> <<"{","}">>
      [] OTHER -> <<"u","n","d","e","f","i","n","e","d">>

-----------------------------------------------------------------------------
(* Logger (src/src/utils/logger.ts)                                        *)

LogLevel == [DEBUG |-> 0, INFO |-> 1, WARN |-> 2, ERROR |-> 3]

\* Logger.formatMessage: TRUE iff it throws (JSON.stringify of a truthy,
\* cyclic data argument)
formatMessageThrows(data) == Truthy(data) /\ Cyclic(data)

\* Logger.log: TRUE iff the call throws
logThrows(level, data) ==
    /\ level >= loggerLevel
    /\ formatMessageThrows(data)

-----------------------------------------------------------------------------
(* Transport responses and failures                                        *)

Verbs == {"get", "post", "put", "patch", "delete"}

\* the verbs whose signature has a data argument
BodyVerbs == {"post", "put", "patch"}

\* statuses the transport resolves with, and those it rejects with
SuccessStatuses == {200, 201, 204}
ErrorStatuses == 400..599

Headers == {"jsonHeaders", "noHeaders"}

\* AxiosResponse: what the transport resolves with, or error.response
AxiosResponse(status, statusText, data, headers, method, request) ==
    [data |-> data, status |-> status, statusText |-> statusText,
     headers |-> headers, config |-> [method |-> method], request |-> request]

\* error.response of a failure that carries none
NoResponseRec == AxiosResponse(0, <<>>, "undefined", "noHeaders", "none", NoRequest)

\* the object the transport rejects with, as far as the client reads it
Failure(response, request, message) ==
    [response |-> response, request |-> request, message |-> message]

NoFailure == Failure(NoResponseRec, NoRequest, <<>>)

\* the TypeError raised by JSON.stringify: an Error without request/response
CircularTypeError == Failure(NoResponseRec, NoRequest, CIRCULAR_MSG)

-----------------------------------------------------------------------------
(* ApiClient helpers                                                       *)

\* new Error(message) / a thrown TypeError, as the caller sees them
ErrorOf(name, message) == [name |-> name, message |-> message]

NoError == ErrorOf("none", <<>>)
NoEnvelope == [data |-> "undefined", status |-> 0, statusText |-> <<>>,
               headers |-> "noHeaders"]

\* formatResponse with status text and headers defaulted instead of copied
formatResponseDefaulted(response) ==
    [data |-> response.data,
     status |-> response.status,
     statusText |-> OK_TEXT,
     headers |-> "noHeaders"]

\* ApiClient.formatResponse
formatResponse(response) ==
    [data |-> response.data,
     status |-> response.status,
     statusText |-> response.statusText,
     headers |-> response.headers]

\* the message of branch 1 without the status code
serverErrorMessageNoStatus(status, statusText) ==
    API_ERROR \o statusText

\* the message of branch 1 without its label
serverErrorMessageNoLabel(status, statusText) ==
    NumberToString(status) \o <<" ">> \o statusText

\* `API Error: ${status} ${statusText}`
serverErrorMessage(status, statusText) ==
    API_ERROR \o NumberToString(status) \o <<" ">> \o statusText

\* the message of branch 3 taken over from the failure as it is
requestErrorMessageBare(failureMessage) ==
    failureMessage

\* `Request Error: ${error.message}`
requestErrorMessage(failureMessage) ==
    REQUEST_ERROR \o failureMessage

\* ApiClient.handleError: the Error it returns, or the TypeError that
\* escapes from it when the logger (or the template literal) throws
handleError(error) ==
    IF error.response # NoResponseRec
    THEN LET status == error.response.status
             statusText == error.response.statusText
             data == error.response.data
             message == serverErrorMessage(status, statusText)
         IN  IF logThrows(LogLevel.ERROR, ObjectWith(data)) \/ Cyclic(data)
             THEN ErrorOf("TypeError", CIRCULAR_MSG)
             ELSE ErrorOf("Error", message \o SEP \o JSONstringify(data))
    ELSE IF Truthy(error.request)
    THEN LET message == NETWORK_ERROR
         IN  IF logThrows(LogLevel.ERROR, error.request)
             THEN ErrorOf("TypeError", CIRCULAR_MSG)
             ELSE ErrorOf("Error", message)
    ELSE LET message == requestErrorMessage(error.message)
         IN  IF logThrows(LogLevel.ERROR, "errorInstance")
             THEN ErrorOf("TypeError", CIRCULAR_MSG)
             ELSE ErrorOf("Error", message)

\* request interceptor (setupInterceptors, fulfilled handler): TRUE iff it
\* throws while serialising config.data
requestInterceptorThrows(data) == Truthy(data) /\ Cyclic(data)

\* response interceptor, fulfilled handler: TRUE iff it throws
responseInterceptorThrows(response) == Cyclic(response.data)

\* response interceptor, rejected handler: the failure it rejects with
responseInterceptorRejected(error) ==
    IF logThrows(LogLevel.ERROR, ObjectWith(error.response.data))
    THEN CircularTypeError
    ELSE error

-----------------------------------------------------------------------------
(* Verb calls: get / post / put / patch / delete                           *)

IdleCall ==
    [pc |-> "idle", verb |-> "none", data |-> "undefined",
     interceptorThrew |-> FALSE, stage |-> "none",
     response |-> NoResponseRec, error |-> NoFailure]

NoOutcome == [kind |-> "none", envelope |-> NoEnvelope, error |-> NoError]

\* `return this.formatResponse(response)`
Returned(response) ==
    [kind |-> "returned", envelope |-> formatResponse(response), error |-> NoError]

\* `return this.handleError(error)`: the failure handed back as a value
RaisedSwallowed(error) ==
    [kind |-> "returned", envelope |-> NoEnvelope, error |-> handleError(error)]

\* `throw this.handleError(error)`
Raised(error) ==
    [kind |-> "raised", envelope |-> NoEnvelope, error |-> handleError(error)]

\* the synchronous part of a verb call: this.client.<verb>(url, data, config)
\* is started, the request interceptor runs, the call suspends at its await
VerbCall(verb, data) ==
    /\ call.pc \in {"idle", "done"}
    /\ call' = [IdleCall EXCEPT !.pc = "pending", !.verb = verb, !.data = data,
                   !.interceptorThrew = requestInterceptorThrows(data)]
    /\ outcome' = NoOutcome
    /\ UNCHANGED <<mockServer, loggerLevel, retry, clientVars>>

Get == VerbCall("get", "undefined")

Post == \E data \in RequestData : VerbCall("post", data)

Put == \E data \in RequestData : VerbCall("put", data)

Patch == \E data \in RequestData : VerbCall("patch", data)

Delete == VerbCall("delete", "undefined")

\* the awaited promise is fulfilled: response interceptor, then the try body
Fulfilled(response) ==
    /\ call' = [call EXCEPT !.pc = "done", !.stage = "response",
                            !.response = response]
    /\ outcome' = IF responseInterceptorThrows(response)
                  THEN Raised(CircularTypeError)
                  ELSE Returned(response)
    /\ UNCHANGED <<mockServer, loggerLevel, retry, clientVars>>

\* the awaited promise is rejected: response interceptor's rejected handler,
\* then the catch block
Rejected(stage, error) ==
    /\ call' = [call EXCEPT !.pc = "done", !.stage = stage, !.error = error]
    /\ outcome' = Raised(responseInterceptorRejected(error))
    /\ UNCHANGED <<mockServer, loggerLevel, retry, clientVars>>

\* the request interceptor threw: the request is never handed to the transport
InterceptorRejects ==
    /\ call.pc = "pending"
    /\ call.interceptorThrew
    /\ Rejected("interceptor", CircularTypeError)

\* the server answers with a 2xx status
TransportResolves ==
    /\ call.pc = "pending"
    /\ ~call.interceptorThrew
    /\ \E status \in SuccessStatuses, statusText \in StatusTexts,
          data \in Bodies, headers \in Headers, request \in Requests :
          Fulfilled(AxiosResponse(status, statusText, data, headers,
                                  call.verb, request))

\* the server answers with an error status
TransportRejectsWithResponse ==
    /\ call.pc = "pending"
    /\ ~call.interceptorThrew
    /\ \E status \in ErrorStatuses, statusText \in {NOT_FOUND, EMPTY_TEXT},
          data \in Bodies \ {"userObject"},
          request \in Requests \cup {NoRequest},
          message \in FailureMessages :
          Rejected("status",
                   Failure(AxiosResponse(status, statusText, data, "jsonHeaders",
                                         call.verb, request),
                           request, message))

\* the request was sent and the timeout expired before any response arrived
TransportTimesOut ==
    /\ call.pc = "pending"
    /\ ~call.interceptorThrew
    /\ \E request \in Requests :
          Rejected("timeout", Failure(NoResponseRec, request, TIMEOUT_MSG))

\* the request was sent and the connection failed (reset, DNS, abort)
TransportGetsNoResponse ==
    /\ call.pc = "pending"
    /\ ~call.interceptorThrew
    /\ \E request \in Requests, message \in FailureMessages :
          Rejected("network", Failure(NoResponseRec, request, message))

\* the transport could not build or send the request at all
TransportSetupFails ==
    /\ call.pc = "pending"
    /\ ~call.interceptorThrew
    /\ \E message \in FailureMessages :
          Rejected("setup", Failure(NoResponseRec, NoRequest, message))

-----------------------------------------------------------------------------
(* Client configuration                                                    *)

\* the instances a test file works with (users.spec.ts:11 and :272)
Clients == {"apiClient", "clientWithShortTimeout"}

CallIds == 1..MaxCalls

\* base addresses: ReqResApiClient's constructor argument and the one the
\* timeout test switches to
ReqResURL == "https://reqres.in/api"
HttpStatURL == "https://httpstat.us/200?sleep=5000"

BaseURLs == {ReqResURL, HttpStatURL}

Tokens == {"tokenA", "tokenB"}

\* `Bearer ${token}`
Bearer(token) == <<"Bearer ", token>>

\* the headers given to axios.create
DefaultHeaders ==
    [h \in {"Content-Type", "Accept"} |-> <<"application/json">>]

\* the state an ApiClient has after its constructor
NewClient(baseURL) ==
    [baseURL |-> baseURL,
     defaults |-> [baseURL |-> baseURL, timeout |-> apiTimeout,
                   headers |-> DefaultHeaders]]

\* setAuthToken that stores the token without the scheme
setAuthTokenRaw(client, token) ==
    [client EXCEPT !.defaults.headers =
        [h \in DOMAIN @ \cup {"Authorization"} |->
            IF h = "Authorization" THEN <<token>> ELSE @[h]]]

\* setAuthToken that keeps a token that is already set
setAuthTokenOnce(client, token) ==
    IF "Authorization" \in DOMAIN client.defaults.headers
    THEN client
    ELSE [client EXCEPT !.defaults.headers =
            [h \in DOMAIN @ \cup {"Authorization"} |->
                IF h = "Authorization" THEN Bearer(token) ELSE @[h]]]

\* ApiClient.setAuthToken
setAuthToken(client, token) ==
    [client EXCEPT !.defaults.headers =
        [h \in DOMAIN @ \cup {"Authorization"} |->
            IF h = "Authorization" THEN Bearer(token) ELSE @[h]]]

\* ApiClient.removeAuthToken
removeAuthToken(client) ==
    [client EXCEPT !.defaults.headers =
        [h \in DOMAIN @ \ {"Authorization"} |-> @[h]]]

\* a setter that records the address without handing it to the transport
setBaseURLFieldOnly(client, baseURL) ==
    [client EXCEPT !.baseURL = baseURL]

\* ApiClient.setBaseURL
setBaseURL(client, baseURL) ==
    [client EXCEPT !.baseURL = baseURL, !.defaults.baseURL = baseURL]

\* ApiClient.getBaseURL
getBaseURL(client) == client.baseURL

\* the optional `config` argument of a verb: per-call headers
NoOptions == [headers |-> << >>]

PerCallOptions ==
    {NoOptions,
     [headers |-> [h \in {"Accept"} |-> <<"text/plain">>]],
     [headers |-> [h \in {"Authorization"} |-> <<"Basic ", "credentials">>]]}

\* what the transport makes of the instance defaults and of the per-call
\* options when a verb is called: a copy of the settings as they are at that
\* moment, a per-call header taking the place of the default of its name
mergeConfig(defaults, options) ==
    [baseURL |-> defaults.baseURL, timeout |-> defaults.timeout,
     headers |-> [h \in DOMAIN defaults.headers \cup DOMAIN options.headers |->
                     IF h \in DOMAIN options.headers
                     THEN options.headers[h]
                     ELSE defaults.headers[h]]]

NoConfig == [baseURL |-> "none", timeout |-> 0, headers |-> << >>]

\* what the caller last handed to the constructor and setters of a client
\* (token "none": no token was set, or the last one was removed)
FirstWritten(baseURL) == [token |-> "none", baseURL |-> baseURL]

-----------------------------------------------------------------------------
(* Concurrent verb calls on the clients                                    *)

\* what the transport can complete a request with
Answers ==
    {[ok |-> TRUE,
      response |-> AxiosResponse(200, OK_TEXT, "userObject", "jsonHeaders",
                                 "none", "XMLHttpRequest"),
      error |-> NoFailure],
     [ok |-> FALSE,
      response |-> NoResponseRec,
      error |-> Failure(AxiosResponse(404, NOT_FOUND, "emptyObject",
                                      "jsonHeaders", "none", "XMLHttpRequest"),
                        "XMLHttpRequest", NETWORK_MSG)]}

NoAnswer == [ok |-> FALSE, response |-> NoResponseRec, error |-> NoFailure]

\* a call site: `options` is the config argument of the verb in progress,
\* `sent` the request the transport made of it, `delegations` the number of
\* times the verb handed the request to the transport
FreeSlot ==
    [pc |-> "free", client |-> "none", options |-> NoOptions,
     sent |-> NoConfig, delegations |-> 0,
     answer |-> NoAnswer, outcome |-> NoOutcome]

\* the try / catch of a verb around the awaited transport call
Completion(answer) ==
    IF answer.ok
    THEN IF responseInterceptorThrows(answer.response)
         THEN Raised(CircularTypeError)
         ELSE Returned(answer.response)
    ELSE Raised(responseInterceptorRejected(answer.error))

\* setAuthToken reaching into the requests of the instance still in flight
SetAuthTokenLive(c, token) ==
    /\ config' = [config EXCEPT ![c] = setAuthToken(@, token)]
    /\ written' = [written EXCEPT ![c].token = token]
    /\ requests' = [i \in CallIds |->
          IF requests[i].pc = "pending" /\ requests[i].client = c
          THEN [requests[i] EXCEPT !.sent =
                   mergeConfig(setAuthToken(config[c], token).defaults,
                               requests[i].options)]
          ELSE requests[i]]
    /\ UNCHANGED <<mockServer, loggerLevel, call, outcome, retry>>

\* setAuthToken writing to defaults shared by all instances
SetAuthTokenGlobal(c, token) ==
    /\ config' = [d \in Clients |-> setAuthToken(config[d], token)]
    /\ written' = [written EXCEPT ![c].token = token]
    /\ UNCHANGED <<mockServer, loggerLevel, call, outcome, retry, requests>>

\* setAuthToken on one instance
SetAuthToken(c, token) ==
    /\ config' = [config EXCEPT ![c] = setAuthToken(@, token)]
    /\ written' = [written EXCEPT ![c].token = token]
    /\ UNCHANGED <<mockServer, loggerLevel, call, outcome, retry, requests>>

\* removeAuthToken on one instance
RemoveAuthToken(c) ==
    /\ config' = [config EXCEPT ![c] = removeAuthToken(@)]
    /\ written' = [written EXCEPT ![c].token = "none"]
    /\ UNCHANGED <<mockServer, loggerLevel, call, outcome, retry, requests>>

\* setBaseURL on one instance
SetBaseURL(c, baseURL) ==
    /\ config' = [config EXCEPT ![c] = setBaseURL(@, baseURL)]
    /\ written' = [written EXCEPT ![c].baseURL = baseURL]
    /\ UNCHANGED <<mockServer, loggerLevel, call, outcome, retry, requests>>

\* a verb that does not pass its config argument on to the transport
DispatchWithoutOptions(i, c, options) ==
    /\ requests[i].pc \in {"free", "done"}
    /\ requests' = [requests EXCEPT ![i] =
          [FreeSlot EXCEPT !.pc = "pending", !.client = c,
              !.options = options, !.delegations = 1,
              !.sent = mergeConfig(config[c].defaults, NoOptions)]]
    /\ UNCHANGED <<mockServer, loggerLevel, call, outcome, retry, config, written>>

\* a verb is called on instance c from call site i with a serialisable body
\* and the per-call config `options`: this.client.<verb>(url, data, config)
\* merges the defaults and the options, the call suspends at its await
DispatchWith(i, c, options) ==
    /\ requests[i].pc \in {"free", "done"}
    /\ requests' = [requests EXCEPT ![i] =
          [FreeSlot EXCEPT !.pc = "pending", !.client = c,
              !.options = options, !.delegations = 1,
              !.sent = mergeConfig(config[c].defaults, options)]]
    /\ UNCHANGED <<mockServer, loggerLevel, call, outcome, retry, config, written>>

\* a verb called without the optional config argument
Dispatch(i, c) == DispatchWith(i, c, NoOptions)

\* a completion handed to every call of the instance that is still waiting
SettleShared(i, answer) ==
    /\ requests[i].pc = "pending"
    /\ requests' = [j \in CallIds |->
          IF requests[j].pc = "pending"
             /\ requests[j].client = requests[i].client
          THEN [FreeSlot EXCEPT !.pc = "done", !.client = requests[j].client,
                   !.delegations = requests[j].delegations,
                   !.answer = IF j = i THEN answer ELSE NoAnswer,
                   !.outcome = Completion(answer)]
          ELSE requests[j]]
    /\ UNCHANGED <<mockServer, loggerLevel, call, outcome, retry, config, written>>

\* a completion that drops the instance's token when the call failed
SettleClearsToken(i, answer) ==
    /\ requests[i].pc = "pending"
    /\ requests' = [requests EXCEPT ![i] =
          [FreeSlot EXCEPT !.pc = "done", !.client = requests[i].client,
                           !.delegations = requests[i].delegations,
                           !.answer = answer,
                           !.outcome = Completion(answer)]]
    /\ config' = IF answer.ok THEN config
                 ELSE [config EXCEPT ![requests[i].client] = removeAuthToken(@)]
    /\ UNCHANGED <<mockServer, loggerLevel, call, outcome, retry, written>>

\* a verb that hands a failed request to the transport once more before it
\* raises
SettleCallsAgain(i, answer) ==
    /\ requests[i].pc = "pending"
    /\ requests' = [requests EXCEPT ![i] =
          IF ~answer.ok /\ requests[i].delegations < 2
          THEN [requests[i] EXCEPT !.delegations = @ + 1]
          ELSE [FreeSlot EXCEPT !.pc = "done", !.client = requests[i].client,
                                !.delegations = requests[i].delegations,
                                !.answer = answer,
                                !.outcome = Completion(answer)]]
    /\ UNCHANGED <<mockServer, loggerLevel, call, outcome, retry, config, written>>

\* a verb that never resumes when its awaited transport call settles
SettleNeverResumes(i, answer) ==
    /\ requests[i].pc = "pending"
    /\ UNCHANGED vars

\* the awaited transport call of call site i settles and the verb completes;
\* the caller is left with the Envelope or the Error only
Settle(i, answer) ==
    /\ requests[i].pc = "pending"
    /\ requests' = [requests EXCEPT ![i] =
          [FreeSlot EXCEPT !.pc = "done", !.client = requests[i].client,
                           !.delegations = requests[i].delegations,
                           !.answer = answer,
                           !.outcome = Completion(answer)]]
    /\ UNCHANGED <<mockServer, loggerLevel, call, outcome, retry, config, written>>

\* the transport answers the request of call site i
TransportAnswers(i) ==
    \E answer \in Answers : Settle(i, answer)

\* no answer arrived within the `timeout` of the request
TimeoutAnswer ==
    [ok |-> FALSE, response |-> NoResponseRec,
     error |-> Failure(NoResponseRec, "XMLHttpRequest", TIMEOUT_MSG)]

\* the timeout of the request of call site i expires: the transport rejects
TimeoutExpires(i) ==
    /\ requests[i].sent.timeout > 0
    /\ Settle(i, TimeoutAnswer)

-----------------------------------------------------------------------------
(* withRetry                                                               *)

\* values op resolves with
OpResults == {"userA", "userB"}

\* messages of the errors op rejects with (op rejects with Error objects,
\* as the verb calls do: `error as Error`)
OpMessages ==
    {NETWORK_ERROR, API_ERROR \o NumberToString(404),
     requestErrorMessage(NETWORK_MSG)}

\* the error object created by the k-th invocation of op
OpError(k, message) == [name |-> "Error", message |-> message, ref |-> k]

\* `let lastError: Error;` before any assignment
Undefined == [name |-> "undefined", message |-> <<>>, ref |-> 0]

AttemptChoices == (-1..MaxAttemptsBound) \cup {apiRetryAttempts}

DelayChoices == {DefaultDelay, 500}

\* `sent`: the requests made by the invocations of an operation that is a
\* verb call; `others`: what the other call site was doing when the current
\* wait began
IdleRetry ==
    [pc |-> "idle", entry |-> "none", maxAttempts |-> 0, delay |-> 0,
     attempt |-> 0, lastError |-> Undefined, invocations |-> 0, waits |-> <<>>,
     failures |-> <<>>, produced |-> "none", result |-> "none",
     raised |-> Undefined, sent |-> <<>>, others |-> "none"]

\* the wrappers whose operation is a verb call of the instance
VerbEntries == {"getUserWithRetry", "createUserWithRetry"}

\* the instance the wrappers are called on
RetryClient == "apiClient"

\* the call site used by the calls made next to withRetry
OtherCall == 1

\* an operation that sends again the request of its first invocation
InvokeResend(r) ==
    [r EXCEPT !.invocations = @ + 1,
              !.sent = IF r.entry \in VerbEntries
                       THEN Append(@, IF @ = <<>>
                                      THEN mergeConfig(config[RetryClient].defaults,
                                                       NoOptions)
                                      ELSE @[1])
                       ELSE @]

\* `operation()`: this.getUserById(id) / this.createUser(userData) call the
\* verb, which hands the request to the transport before it suspends
Invoke(r) ==
    [r EXCEPT !.invocations = @ + 1,
              !.sent = IF r.entry \in VerbEntries
                       THEN Append(@, mergeConfig(config[RetryClient].defaults,
                                                  NoOptions))
                       ELSE @]

\* a delay that doubles with every failed attempt
backoffExponential(delay, attempt) == delay * 2^(attempt - 1)

\* the argument of this.delay after a failed attempt
backoff(delay, attempt) == delay * attempt

\* a catch block that keeps the first failure it saw
CatchFirst(r, error) ==
    [r EXCEPT !.lastError = IF @ = Undefined THEN error ELSE @,
              !.failures = Append(@, error)]

\* `lastError = error as Error` in the catch block
Catch(r, error) ==
    [r EXCEPT !.lastError = error, !.failures = Append(@, error)]

\* a loop that tests its condition only after the first pass
LoopTestAfterFirst(attempt, maxAttempts) ==
    attempt = 1 \/ attempt <= maxAttempts

\* `attempt <= maxAttempts`, the condition of the for loop
LoopTest(attempt, maxAttempts) ==
    attempt <= maxAttempts

\* withRetry up to its first suspension, entered from `entry`: the loop is
\* entered and operation() is invoked, or the loop is skipped and lastError
\* is thrown
StartRetry(entry, maxAttempts, delay) ==
    /\ retry.pc \in {"idle", "returned", "raised"}
    /\ retry' = IF LoopTest(1, maxAttempts)
                THEN Invoke([IdleRetry EXCEPT !.pc = "awaitOp", !.entry = entry,
                                !.maxAttempts = maxAttempts, !.delay = delay,
                                !.attempt = 1])
                ELSE [IdleRetry EXCEPT !.pc = "raised", !.entry = entry,
                         !.maxAttempts = maxAttempts, !.delay = delay,
                         !.attempt = 1, !.raised = Undefined]
    /\ UNCHANGED <<mockServer, loggerLevel, call, outcome, clientVars>>

\* withRetry(operation, maxAttempts, delay) called directly
WithRetry(maxAttempts, delay) ==
    StartRetry("withRetry", maxAttempts, delay)

\* ReqResApiClient.getUserWithRetry(id, maxAttempts): delay is defaulted
GetUserWithRetry(maxAttempts) ==
    StartRetry("getUserWithRetry", maxAttempts, DefaultDelay)

\* ReqResApiClient.createUserWithRetry(userData, maxAttempts)
CreateUserWithRetry(maxAttempts) ==
    StartRetry("createUserWithRetry", maxAttempts, DefaultDelay)

\* operation() fulfilled, its value lost on the way to the caller
OperationResolvesDropped(result) ==
    /\ retry.pc = "awaitOp"
    /\ retry' = [retry EXCEPT !.pc = "returned", !.produced = result,
                              !.result = "none"]
    /\ UNCHANGED <<mockServer, loggerLevel, call, outcome, clientVars>>

\* `return await operation()` with operation() fulfilled
OperationResolves(result) ==
    /\ retry.pc = "awaitOp"
    /\ retry' = [retry EXCEPT !.pc = "returned", !.produced = result,
                              !.result = result]
    /\ UNCHANGED <<mockServer, loggerLevel, call, outcome, clientVars>>

\* a catch block that waits after every failed attempt, the last included
OperationRejectsWaitsLast(message) ==
    /\ retry.pc = "awaitOp"
    /\ retry' = [Catch(retry, OpError(retry.invocations, message))
                    EXCEPT !.pc = "delaying",
                           !.others = requests[OtherCall].pc,
                           !.waits = Append(@, backoff(retry.delay,
                                                       retry.attempt))]
    /\ UNCHANGED <<mockServer, loggerLevel, call, outcome, clientVars>>

\* a catch block that gives up at once on a failure that is not worth
\* retrying
OperationRejectsSetupEnds(message) ==
    /\ retry.pc = "awaitOp"
    /\ LET caught == Catch(retry, OpError(retry.invocations, message))
       IN  retry' = IF \/ retry.attempt = retry.maxAttempts
                       \/ StartsWith(message, REQUEST_ERROR)
                    THEN [caught EXCEPT !.pc = "raised",
                                        !.raised = caught.lastError]
                    ELSE [caught EXCEPT !.pc = "delaying",
                             !.others = requests[OtherCall].pc,
                             !.waits = Append(@, backoff(retry.delay,
                                                         retry.attempt))]
    /\ UNCHANGED <<mockServer, loggerLevel, call, outcome, clientVars>>

\* a catch block that goes on to the next attempt without waiting
OperationRejectsNoWait(message) ==
    /\ retry.pc = "awaitOp"
    /\ LET caught == Catch(retry, OpError(retry.invocations, message))
       IN  retry' = IF retry.attempt = retry.maxAttempts
                    THEN [caught EXCEPT !.pc = "raised",
                                        !.raised = caught.lastError]
                    ELSE Invoke([caught EXCEPT !.attempt = @ + 1])
    /\ UNCHANGED <<mockServer, loggerLevel, call, outcome, clientVars>>

\* operation() rejected: the catch block, up to the break or the delay
OperationRejects(message) ==
    /\ retry.pc = "awaitOp"
    /\ LET caught == Catch(retry, OpError(retry.invocations, message))
       IN  retry' = IF retry.attempt = retry.maxAttempts
                    THEN [caught EXCEPT !.pc = "raised",
                                        !.raised = caught.lastError]
                    ELSE [caught EXCEPT !.pc = "delaying",
                             !.others = requests[OtherCall].pc,
                             !.waits = Append(@, backoff(retry.delay,
                                                         retry.attempt))]
    /\ UNCHANGED <<mockServer, loggerLevel, call, outcome, clientVars>>

\* the timer of this.delay fires: attempt++, loop test, next operation()
DelayElapses ==
    /\ retry.pc = "delaying"
    /\ LET attempt == retry.attempt + 1
       IN  retry' = IF LoopTest(attempt, retry.maxAttempts)
                    THEN Invoke([retry EXCEPT !.pc = "awaitOp",
                                              !.attempt = attempt,
                                              !.others = "none"])
                    ELSE [retry EXCEPT !.pc = "raised", !.attempt = attempt,
                                       !.others = "none",
                                       !.raised = retry.lastError]
    /\ UNCHANGED <<mockServer, loggerLevel, call, outcome, clientVars>>

-----------------------------------------------------------------------------
(* MockServer (src/unnamed/part_002)                                       *)

StartIds == 1..MaxStarts

\* `port: config.port || 3001`
MockPort == 3001

\* `isRunning`: the field of the instance; `listener`: the start() call
\* whose http.Server is bound to the port (0: the port is free); `starts`:
\* where each start() call is
NewMockServer ==
    [isRunning |-> FALSE, port |-> MockPort, listener |-> 0,
     starts |-> [k \in StartIds |-> "idle"]]

\* MockServer.isServerRunning
isServerRunning(server) == server.isRunning

\* start() called from call site k, up to its return or to the promise made
\* around app.listen: listen makes a new http.Server and binds it to the
\* port at once, which fails when the port is taken; the callback comes later
Start(k) ==
    /\ mockServer.starts[k] \in {"idle", "returned", "resolved", "rejected"}
    /\ mockServer' =
          IF mockServer.isRunning
          THEN [mockServer EXCEPT !.starts[k] = "returned"]
          ELSE IF mockServer.listener = 0
          THEN [mockServer EXCEPT !.starts[k] = "bound", !.listener = k]
          ELSE [mockServer EXCEPT !.starts[k] = "failed"]
    /\ UNCHANGED <<loggerLevel, call, outcome, retry, clientVars>>

\* the callback of app.listen runs for the server that was bound:
\* `this.isRunning = true; ...; resolve()`
ListenCallback(k) ==
    /\ mockServer.starts[k] = "bound"
    /\ mockServer' = [mockServer EXCEPT !.starts[k] = "resolved",
                                        !.isRunning = TRUE]
    /\ UNCHANGED <<loggerLevel, call, outcome, retry, clientVars>>

\* the server that could not be bound reports EADDRINUSE: the callback is
\* called with the error and the promise is rejected, or the error is
\* emitted past the callback and the promise is never settled
ListenFails(k) ==
    /\ mockServer.starts[k] = "failed"
    /\ \E end \in {"rejected", "unsettled"} :
          mockServer' = [mockServer EXCEPT !.starts[k] = end]
    /\ UNCHANGED <<loggerLevel, call, outcome, retry, clientVars>>

\* MockServer.stop: it has no await, so it runs in one piece
Stop ==
    /\ mockServer' = IF ~mockServer.isRunning
                     THEN mockServer
                     ELSE [mockServer EXCEPT !.isRunning = FALSE]
    /\ UNCHANGED <<loggerLevel, call, outcome, retry, clientVars>>

-----------------------------------------------------------------------------
(* Specifications                                                          *)

\* the logger is built with DEBUG in development, INFO otherwise
Init ==
    /\ loggerLevel \in {LogLevel.DEBUG, LogLevel.INFO}
    /\ call = IdleCall
    /\ outcome = NoOutcome
    /\ retry = IdleRetry
    /\ config = [c \in Clients |-> NewClient(ReqResURL)]
    /\ requests = [i \in CallIds |-> FreeSlot]
    /\ written = [c \in Clients |-> FirstWritten(ReqResURL)]
    /\ mockServer = NewMockServer

\* verb calls on one client
Next ==
    \/ Get
    \/ Post
    \/ Put
    \/ Patch
    \/ Delete
    \/ InterceptorRejects
    \/ TransportResolves
    \/ TransportRejectsWithResponse
    \/ TransportTimesOut
    \/ TransportGetsNoResponse
    \/ TransportSetupFails

Spec == Init /\ [][Next]_vars

\* concurrent verb calls on a transport that answers, or fails at the latest
\* when the `timeout` given to axios.create expires
LiveNext ==
    \/ SetAuthToken("apiClient", "tokenA")
    \/ \E i \in CallIds, c \in Clients : Dispatch(i, c)
    \/ \E i \in CallIds : TransportAnswers(i)
    \/ \E i \in CallIds : TimeoutExpires(i)

LiveSpec ==
    /\ Init
    /\ [][LiveNext]_vars
    /\ \A i \in CallIds : WF_vars(TransportAnswers(i) \/ TimeoutExpires(i))

\* withRetry around an arbitrary operation
RetryNext ==
    \/ \E maxAttempts \in AttemptChoices, delay \in DelayChoices :
          WithRetry(maxAttempts, delay)
    \/ \E maxAttempts \in AttemptChoices : GetUserWithRetry(maxAttempts)
    \/ \E maxAttempts \in AttemptChoices : CreateUserWithRetry(maxAttempts)
    \/ \E result \in OpResults : OperationResolves(result)
    \/ \E message \in OpMessages : OperationRejects(message)
    \/ DelayElapses

RetrySpec == Init /\ [][RetryNext]_vars

\* start() and stop() calls on one MockServer
MockNext ==
    \/ \E k \in StartIds : Start(k)
    \/ \E k \in StartIds : ListenCallback(k)
    \/ \E k \in StartIds : ListenFails(k)
    \/ Stop

MockSpec == Init /\ [][MockNext]_vars

\* start() calls only
StartsNext ==
    \/ \E k \in StartIds : Start(k)
    \/ \E k \in StartIds : ListenCallback(k)
    \/ \E k \in StartIds : ListenFails(k)

StartsSpec == Init /\ [][StartsNext]_vars

\* operation() settles
OperationSettles ==
    \/ \E result \in OpResults : OperationResolves(result)
    \/ \E message \in OpMessages : OperationRejects(message)

\* withRetry around an operation every invocation of which terminates, on an
\* event loop that fires the timers of this.delay
RetryLiveSpec ==
    /\ RetrySpec
    /\ WF_vars(OperationSettles)
    /\ WF_vars(DelayElapses)

\* setters and concurrent verb calls on the client instances
ClientNext ==
    \/ \E c \in Clients, token \in Tokens : SetAuthToken(c, token)
    \/ \E c \in Clients : RemoveAuthToken(c)
    \/ \E c \in Clients, baseURL \in BaseURLs : SetBaseURL(c, baseURL)
    \/ \E i \in CallIds, c \in Clients : Dispatch(i, c)
    \/ \E i \in CallIds : TransportAnswers(i)

ClientSpec == Init /\ [][ClientNext]_vars

\* verb calls with and without per-call options on one client
OptionsNext ==
    \/ \E token \in Tokens : SetAuthToken("apiClient", token)
    \/ RemoveAuthToken("apiClient")
    \/ \E i \in CallIds, options \in PerCallOptions :
          DispatchWith(i, "apiClient", options)
    \/ \E i \in CallIds : TransportAnswers(i)

OptionsSpec == Init /\ [][OptionsNext]_vars

\* getUserWithRetry on a client whose setters and verbs are called meanwhile
RetryCallNext ==
    \/ \E maxAttempts \in AttemptChoices : GetUserWithRetry(maxAttempts)
    \/ OperationResolves("userA")
    \/ OperationRejects(NETWORK_ERROR)
    \/ DelayElapses
    \/ SetAuthToken(RetryClient, "tokenA")
    \/ RemoveAuthToken(RetryClient)
    \/ \E baseURL \in BaseURLs : SetBaseURL(RetryClient, baseURL)
    \/ Dispatch(OtherCall, RetryClient)
    \/ TransportAnswers(OtherCall)

RetryCallSpec == Init /\ [][RetryCallNext]_vars

-----------------------------------------------------------------------------
(* Vocabulary of the properties                                            *)

\* the kind of error a caller can tell from what the verb call raised
Kind(error) ==
    IF error.name # "Error" THEN "other"
    ELSE IF StartsWith(error.message, API_ERROR) THEN "ServerError"
    ELSE IF error.message = NETWORK_ERROR THEN "NoResponseError"
    ELSE IF StartsWith(error.message, REQUEST_ERROR) THEN "RequestSetupError"
    ELSE "other"

\* the kind the classification algorithm assigns to a failure
ExpectedKind(failure) ==
    IF failure.response # NoResponseRec THEN "ServerError"
    ELSE IF failure.request # NoRequest THEN "NoResponseError"
    ELSE "RequestSetupError"

\* the three decimal digits of a status code
ThreeDigits(n) == <<Digit(n \div 100), Digit((n \div 10) % 10), Digit(n % 10)>>

DigitValue(c) == CHOOSE d \in 0..9 : Digit(d) = c

IsDigit(c) == \E d \in 0..9 : Digit(d) = c

RECURSIVE ParseNumber(_, _, _)
\* the number written in text from position i on
ParseNumber(text, i, acc) ==
    IF i <= Len(text) /\ IsDigit(text[i])
    THEN ParseNumber(text, i + 1, acc * 10 + DigitValue(text[i]))
    ELSE acc

\* the status code written after the label of a server error message
StatusIn(message) == ParseNumber(message, Len(API_ERROR) + 1, 0)

CallFailed == call.pc = "done" /\ call.stage # "response"

-----------------------------------------------------------------------------
(* Properties of the verb calls (Spec)                                     *)

\* C1: every failed verb call raises an error of the kind chosen by what the
\* failure carries: response -> ServerError, else request -> NoResponseError,
\* else RequestSetupError, whatever the failure's message is.
C1_KindByPrecedence ==
    CallFailed =>
        /\ outcome.kind = "raised"
        /\ Kind(outcome.error) = ExpectedKind(call.error)

C3_NoResponseKind ==
    (call.pc = "done" /\ call.error.response = NoResponseRec
                      /\ call.error.request # NoRequest) =>
        /\ outcome.kind = "raised"
        /\ outcome.error = ErrorOf("Error", NETWORK_ERROR)

\* C4 (as stated): a failure with neither request nor response raises an
\* error whose message equals the failure's message.
C4_MessageUnchanged ==
    (CallFailed /\ call.error.response = NoResponseRec
                /\ call.error.request = NoRequest) =>
        /\ outcome.kind = "raised"
        /\ outcome.error.message = call.error.message

\* C4 (amended): a failure with neither request nor response raises a
\* RequestSetupError whose message is "Request Error: " followed by the
\* failure's message.
C4_MessagePrefixed ==
    (CallFailed /\ call.error.response = NoResponseRec
                /\ call.error.request = NoRequest) =>
        LET m == outcome.error.message
        IN  /\ outcome.kind = "raised"
            /\ Kind(outcome.error) = "RequestSetupError"
            /\ Len(m) = Len(REQUEST_ERROR) + Len(call.error.message)
            /\ SubSeq(m, 1, Len(REQUEST_ERROR)) = REQUEST_ERROR
            /\ SubSeq(m, Len(REQUEST_ERROR) + 1, Len(m)) = call.error.message

\* a setup failure with the message "Network Error" has been raised
C4_Witness ==
    /\ call.pc = "done"
    /\ call.stage = "setup"
    /\ call.error.message = NETWORK_MSG
    /\ outcome.kind = "raised"
    /\ outcome.error.message =
         <<"R","e","q","u","e","s","t"," ","E","r","r","o","r",":"," ",
           "N","e","t","w","o","r","k"," ","E","r","r","o","r">>

\* C5: when the failure carries a response with status s, the message of the
\* raised error contains "API Error" and the decimal digits of s.
C5_MessageNamesStatus ==
    (call.pc = "done" /\ call.stage = "status") =>
        /\ outcome.kind = "raised"
        /\ Contains(outcome.error.message,
                    <<"A","P","I"," ","E","r","r","o","r">>)
        /\ Contains(outcome.error.message,
                    ThreeDigits(call.error.response.status))

\* a rejected login (400) has been raised with "400" in its message
C5_Witness ==
    /\ call.pc = "done"
    /\ call.stage = "status"
    /\ call.verb = "post"
    /\ call.error.response.status = 400
    /\ call.error.response.data = "errorObject"
    /\ outcome.kind = "raised"
    /\ Contains(outcome.error.message, <<"4","0","0">>)

\* C6: when the timeout expires before any response arrives, the message of
\* the raised error contains "timeout".
C6_TimeoutInMessage ==
    (call.pc = "done" /\ call.stage = "timeout") =>
        /\ outcome.kind = "raised"
        /\ Contains(outcome.error.message, <<"t","i","m","e","o","u","t">>)

\* C7: the Envelope returned for a successful response has exactly the four
\* fields data, status, statusText and headers, each equal to the transport
\* response's.
C7_EnvelopePassThrough ==
    (call.pc = "done" /\ outcome.kind = "returned") =>
        /\ DOMAIN outcome.envelope = {"data", "status", "statusText", "headers"}
        /\ outcome.envelope.data = call.response.data
        /\ outcome.envelope.status = call.response.status
        /\ outcome.envelope.statusText = call.response.statusText
        /\ outcome.envelope.headers = call.response.headers

\* a 201 answer to a post has been returned as an Envelope
C7_Witness ==
    /\ call.pc = "done"
    /\ call.verb = "post"
    /\ call.stage = "response"
    /\ call.response.status = 201
    /\ call.response.statusText = NOT_FOUND
    /\ call.response.headers = "jsonHeaders"
    /\ outcome.kind = "returned"
    /\ outcome.envelope.status = 201
    /\ outcome.envelope.data = "userObject"

\* C8: a completed verb call either returned one Envelope, and then the
\* transport call succeeded, or raised an error, and then it failed; never
\* both, never neither.
C8_OneOutcome ==
    /\ call.pc = "done" =>
        /\ outcome.kind \in {"returned", "raised"}
        /\ (outcome.kind = "returned") <=> (call.stage = "response")
        /\ (outcome.kind = "raised") <=> (call.stage # "response")
        /\ (outcome.kind = "returned") =>
              (outcome.error = NoError /\ outcome.envelope # NoEnvelope)
        /\ (outcome.kind = "raised") =>
              (outcome.envelope = NoEnvelope /\ outcome.error # NoError)
    /\ call.pc # "done" => outcome = NoOutcome

\* a failed delete has raised, with nothing returned
C8_Witness ==
    /\ call.pc = "done"
    /\ call.verb = "delete"
    /\ call.stage = "network"
    /\ outcome.kind = "raised"
    /\ outcome.envelope = NoEnvelope

-----------------------------------------------------------------------------
(* Properties of withRetry (RetrySpec)                                     *)

\* C9: after attempt k < maxAttempts fails the wait is delay * k, and attempt
\* k+1 starts only after it; with maxAttempts = 3, delay = 1000 and two
\* failures before a success, op runs 3 times, the waits are 1000 then 2000
\* and the third attempt's result is returned.
C9_LinearWaits ==
    /\ \A k \in 1..Len(retry.waits) : retry.waits[k] = retry.delay * k
    /\ retry.pc \in {"awaitOp", "returned"} =>
          /\ Len(retry.waits) = retry.attempt - 1
          /\ retry.invocations = retry.attempt
    /\ retry.pc = "delaying" =>
          /\ retry.attempt < retry.maxAttempts
          /\ Len(retry.waits) = retry.attempt
          /\ retry.invocations = retry.attempt
    /\ (retry.pc = "returned" /\ retry.maxAttempts = 3 /\ retry.delay = 1000
            /\ Len(retry.failures) = 2) =>
          /\ retry.invocations = 3
          /\ retry.waits = <<1000, 2000>>
          /\ retry.result = retry.produced

\* op failed twice and then succeeded under maxAttempts = 3, delay = 1000
C9_Witness ==
    /\ retry.pc = "returned"
    /\ retry.maxAttempts = 3
    /\ retry.delay = 1000
    /\ Len(retry.failures) = 2
    /\ retry.waits = <<1000, 2000>>
    /\ retry.result = "userB"

\* C10: with maxAttempts = N >= 1 and op failing every time, op has run
\* exactly N times when withRetry raises, and what it raises is the failure
\* object of the N-th attempt itself.
C10_RaisesLastFailure ==
    (retry.pc = "raised" /\ retry.maxAttempts >= 1) =>
        /\ retry.invocations = retry.maxAttempts
        /\ Len(retry.failures) = retry.maxAttempts
        /\ retry.raised = retry.failures[retry.maxAttempts]
        /\ retry.raised.ref = retry.maxAttempts
        /\ \A k \in 1..(retry.maxAttempts - 1) :
              retry.raised # retry.failures[k]

\* three attempts have failed with differing messages and the third is raised
C10_Witness ==
    /\ retry.pc = "raised"
    /\ retry.maxAttempts = 3
    /\ retry.invocations = 3
    /\ retry.failures[1].message # retry.failures[3].message
    /\ retry.raised = retry.failures[3]

\* C11: when op first succeeds on attempt k <= maxAttempts, withRetry returns
\* that attempt's result, op has run exactly k times (k-1 failures, then the
\* success) and none of the earlier failures is raised.
C11_FirstSuccessReturned ==
    retry.pc = "returned" =>
        /\ retry.result = retry.produced
        /\ retry.result \in OpResults
        /\ retry.attempt <= retry.maxAttempts
        /\ retry.invocations = retry.attempt
        /\ Len(retry.failures) = retry.attempt - 1
        /\ retry.raised = Undefined

\* getUserWithRetry has returned the result of its third attempt
C11_Witness ==
    /\ retry.pc = "returned"
    /\ retry.entry = "getUserWithRetry"
    /\ retry.maxAttempts = 3
    /\ retry.invocations = 3
    /\ Len(retry.failures) = 2
    /\ retry.result = "userA"

\* C12: the waits of getUserWithRetry grow by one constant factor greater
\* than 1 from each wait to the next (w[k+1] / w[k] is the same for all k).
C12_ExponentialBackoff ==
    retry.entry = "getUserWithRetry" =>
        /\ \A k \in 1..(Len(retry.waits) - 1) :
              retry.waits[k + 1] > retry.waits[k]
        /\ \A k \in 2..(Len(retry.waits) - 1) :
              retry.waits[k + 1] * retry.waits[k - 1]
                  = retry.waits[k] * retry.waits[k]

\* C19: withRetry called with maxAttempts <= 0 never invokes op, waits for
\* nothing and raises the never-assigned lastError (undefined).
C19_NoAttemptRaisesUndefined ==
    (retry.pc # "idle" /\ retry.maxAttempts <= 0) =>
        /\ retry.pc = "raised"
        /\ retry.invocations = 0
        /\ retry.waits = <<>>
        /\ retry.failures = <<>>
        /\ retry.result = "none"
        /\ retry.raised = Undefined

\* withRetry(op, 0) has raised
C19_Witness ==
    /\ retry.pc = "raised"
    /\ retry.entry = "withRetry"
    /\ retry.maxAttempts = 0
    /\ retry.invocations = 0
    /\ retry.raised = Undefined

\* C26: with maxAttempts >= 1 and an operation whose invocations terminate,
\* withRetry terminates; it invokes the operation at most maxAttempts times,
\* waits at most maxAttempts - 1 times, and raises after the last failed
\* attempt without waiting (one wait less than failures)
C26_RetryTerminates ==
    /\ [](retry.maxAttempts >= 1 /\ retry.pc # "idle" =>
            /\ retry.invocations <= retry.maxAttempts
            /\ Len(retry.waits) <= retry.maxAttempts - 1
            /\ retry.pc = "raised" =>
                  /\ Len(retry.failures) = retry.maxAttempts
                  /\ Len(retry.waits) = Len(retry.failures) - 1)
    /\ (retry.maxAttempts >= 1 /\ retry.pc \in {"awaitOp", "delaying"})
          ~> (retry.pc \in {"returned", "raised"})

\* withRetry(op, 4) has raised after four failed attempts and three waits
C26_Witness ==
    /\ retry.pc = "raised"
    /\ retry.maxAttempts = MaxAttemptsBound
    /\ retry.invocations = MaxAttemptsBound
    /\ Len(retry.waits) = MaxAttemptsBound - 1

\* C27: whatever the kind of the failure of the operation (ServerError with
\* a 4xx status, NoResponseError, RequestSetupError), withRetry does the
\* same: while attempts remain it waits delay * attempt and then makes a
\* further attempt, and it raises only when the attempts are used up
C27_AllFailuresRetried ==
    [][/\ retry.pc = "awaitOp"
             /\ Len(retry'.failures) = Len(retry.failures) + 1
          => /\ Kind(retry'.failures[Len(retry'.failures)])
                   \in {"ServerError", "NoResponseError", "RequestSetupError"}
             /\ IF retry.attempt < retry.maxAttempts
                THEN /\ retry'.pc = "delaying"
                     /\ retry'.waits
                           = Append(retry.waits, retry.delay * retry.attempt)
                ELSE retry'.pc = "raised"
       /\ retry.pc = "delaying" /\ retry' # retry
          => /\ retry'.pc = "awaitOp"
             /\ retry'.invocations = retry.invocations + 1]_vars

\* a fourth attempt is in progress after a failure of each of the three
\* kinds
C27_Witness ==
    /\ retry.pc = "awaitOp"
    /\ retry.invocations = 4
    /\ Len(retry.failures) = 3
    /\ {Kind(retry.failures[k]) : k \in 1..3}
          = {"ServerError", "NoResponseError", "RequestSetupError"}

-----------------------------------------------------------------------------
(* Properties of logging (Spec)                                            *)

\* the error the three-way classification gives when nothing is logged
ClassifiedError(failure) ==
    IF failure.response # NoResponseRec
    THEN ErrorOf("Error",
                 serverErrorMessage(failure.response.status,
                                    failure.response.statusText)
                    \o SEP \o JSONstringify(failure.response.data))
    ELSE IF failure.request # NoRequest
    THEN ErrorOf("Error", NETWORK_ERROR)
    ELSE ErrorOf("Error", requestErrorMessage(failure.message))

\* C18: a log step that fails does not change what a verb call yields: the
\* call gives the Envelope or the classified error it gives without logging.
C18_LoggingKeepsOutcome ==
    /\ (call.pc = "done" /\ call.stage = "response") =>
          outcome = [kind |-> "returned",
                     envelope |-> formatResponse(call.response),
                     error |-> NoError]
    /\ (call.pc = "done" /\ call.stage \in {"status", "timeout", "network",
                                             "setup"}) =>
          outcome = [kind |-> "raised", envelope |-> NoEnvelope,
                     error |-> ClassifiedError(call.error)]

-----------------------------------------------------------------------------
(* Properties of the configuration and of concurrent calls (ClientSpec)    *)

\* the Authorization header of a set of headers, <<>> when there is none
Authorization(headers) ==
    IF "Authorization" \in DOMAIN headers THEN headers["Authorization"]
    ELSE <<>>

\* call site i is dispatched by this step
Dispatched(i) == requests[i].pc # "pending" /\ requests'[i].pc = "pending"

\* C13: a request dispatched by a client carries Authorization = "Bearer " + t
\* when the client's last token mutation was setAuthToken(t), and no
\* Authorization header when it was removeAuthToken() or there was none.
C13_BearerHeaderFollowsToken ==
    [][\A i \in CallIds :
          Dispatched(i) =>
             LET token == written[requests'[i].client].token
                 headers == requests'[i].sent.headers
             IN  IF token = "none"
                 THEN "Authorization" \notin DOMAIN headers
                 ELSE /\ "Authorization" \in DOMAIN headers
                      /\ headers["Authorization"] = <<"Bearer ", token>>]_vars

\* a request went out with the token set last, another after its removal
C13_Witness ==
    /\ requests[1].pc = "pending"
    /\ requests[1].client = "apiClient"
    /\ Authorization(requests[1].sent.headers) = <<"Bearer ", "tokenB">>
    /\ requests[2].pc = "pending"
    /\ requests[2].client = "apiClient"
    /\ "Authorization" \notin DOMAIN requests[2].sent.headers
    /\ written["apiClient"].token = "none"

\* C14: while a request is in flight, no setter changes the credential, the
\* address or the headers it was dispatched with.
C14_InFlightKeepsSnapshot ==
    [][\A i \in CallIds :
          (requests[i].pc = "pending" /\ requests'[i].pc = "pending") =>
              requests'[i].sent = requests[i].sent]_vars

\* a request is in flight with the old settings after both setters ran
C14_Witness ==
    /\ requests[1].pc = "pending"
    /\ requests[1].client = "apiClient"
    /\ requests[1].sent.baseURL = ReqResURL
    /\ "Authorization" \notin DOMAIN requests[1].sent.headers
    /\ config["apiClient"].defaults.baseURL = HttpStatURL
    /\ "Authorization" \in DOMAIN config["apiClient"].defaults.headers

\* C15: every dispatched request uses, for the address and for the token,
\* exactly what the most recent write before its dispatch gave, together with
\* the untouched default headers.
C15_LastWriteWins ==
    [][\A i \in CallIds :
          Dispatched(i) =>
             LET w == written[requests'[i].client]
                 sent == requests'[i].sent
             IN  /\ sent.baseURL = w.baseURL
                 /\ sent.timeout = apiTimeout
                 /\ sent.headers =
                      IF w.token = "none"
                      THEN [h \in {"Content-Type", "Accept"} |->
                               <<"application/json">>]
                      ELSE [h \in {"Content-Type", "Accept", "Authorization"} |->
                               IF h = "Authorization"
                               THEN <<"Bearer ", w.token>>
                               ELSE <<"application/json">>]]_vars

\* a request went out with the second of two tokens and the second address
C15_Witness ==
    /\ requests[1].pc = "pending"
    /\ Authorization(requests[1].sent.headers) = <<"Bearer ", "tokenA">>
    /\ requests[1].sent.baseURL = ReqResURL
    /\ requests[2].pc = "pending"
    /\ requests[2].client = requests[1].client
    /\ Authorization(requests[2].sent.headers) = <<"Bearer ", "tokenB">>
    /\ requests[2].sent.baseURL = HttpStatURL

\* C16: a setter called on one client changes nothing of another client: the
\* configuration of every client no setter was called on stays as it is, and
\* a request is dispatched with the settings of its own client.
C16_ConfigPerInstance ==
    [][/\ \A d \in Clients :
             written'[d] = written[d] => config'[d] = config[d]
       /\ \A i \in CallIds :
             Dispatched(i) =>
                /\ requests'[i].sent.baseURL =
                      config[requests'[i].client].defaults.baseURL
                /\ requests'[i].sent.headers =
                      config[requests'[i].client].defaults.headers]_vars

\* the two clients hold different tokens and addresses, each with a request
C16_Witness ==
    /\ Authorization(config["apiClient"].defaults.headers)
          = <<"Bearer ", "tokenA">>
    /\ config["apiClient"].baseURL = ReqResURL
    /\ "Authorization" \notin
          DOMAIN config["clientWithShortTimeout"].defaults.headers
    /\ config["clientWithShortTimeout"].baseURL = HttpStatURL
    /\ requests[1].pc = "pending"
    /\ requests[1].client = "apiClient"
    /\ requests[1].sent.baseURL = ReqResURL
    /\ requests[2].pc = "pending"
    /\ requests[2].client = "clientWithShortTimeout"
    /\ "Authorization" \notin DOMAIN requests[2].sent.headers

\* C17: concurrent calls do not block each other (every call still waiting
\* can complete whatever the others do) and every completed call holds the
\* Envelope or error of the answer to its own request.
C17_ConcurrentCallsIndependent ==
    \A i \in CallIds :
        /\ requests[i].pc = "pending" => ENABLED TransportAnswers(i)
        /\ requests[i].pc = "done" =>
              /\ requests[i].answer \in Answers
              /\ requests[i].answer.ok =>
                    /\ requests[i].outcome.kind = "returned"
                    /\ requests[i].outcome.envelope.data
                          = requests[i].answer.response.data
                    /\ requests[i].outcome.envelope.status
                          = requests[i].answer.response.status
              /\ ~requests[i].answer.ok =>
                    /\ requests[i].outcome.kind = "raised"
                    /\ requests[i].outcome.envelope = NoEnvelope

\* of two calls on one client one has returned while the other still waits
C17_Witness ==
    /\ requests[1].pc = "pending"
    /\ requests[1].client = "apiClient"
    /\ requests[2].pc = "done"
    /\ requests[2].client = "apiClient"
    /\ requests[2].outcome.kind = "returned"
    /\ requests[2].outcome.envelope.status = 200

\* C20: a step of a verb call (dispatch or completion, success or failure)
\* leaves every client's base address, token and default headers unchanged;
\* the configuration changes only in steps of the setters.
C20_VerbCallsKeepConfig ==
    [][/\ requests' # requests => config' = config
       /\ config' # config => (written' # written /\ requests' = requests)]_vars

\* a call has failed and a call has returned on a client whose token and
\* address had been set before
C20_Witness ==
    /\ requests[1].pc = "done"
    /\ requests[1].client = "apiClient"
    /\ requests[1].outcome.kind = "raised"
    /\ requests[2].pc = "done"
    /\ requests[2].client = "apiClient"
    /\ requests[2].outcome.kind = "returned"
    /\ Authorization(config["apiClient"].defaults.headers)
          = <<"Bearer ", "tokenA">>
    /\ config["apiClient"].baseURL = HttpStatURL

\* C22: getBaseURL() returns the address most recently handed to
\* setBaseURL (the constructor's address when there was no such call), and a
\* request dispatched then is sent to that same address: the address
\* reported and the address used never differ
C22_ReportedAddressIsUsed ==
    [][/\ \A c \in Clients :
            /\ getBaseURL(config[c]) = written[c].baseURL
            /\ getBaseURL(config'[c]) = written'[c].baseURL
       /\ \A i \in CallIds :
            Dispatched(i) =>
               requests'[i].sent.baseURL
                  = getBaseURL(config[requests'[i].client])]_vars

\* the address of clientWithShortTimeout was changed, getBaseURL reports the
\* new one and a request in flight was sent to it, while a request of the
\* same client issued before the change went to the constructor's address
C22_Witness ==
    \E i, j \in CallIds :
       /\ getBaseURL(config["clientWithShortTimeout"]) = HttpStatURL
       /\ requests[i].pc = "pending"
       /\ requests[i].client = "clientWithShortTimeout"
       /\ requests[i].sent.baseURL = HttpStatURL
       /\ requests[j].pc = "pending"
       /\ requests[j].client = "clientWithShortTimeout"
       /\ requests[j].sent.baseURL = ReqResURL

-----------------------------------------------------------------------------
(* Properties of per-call options (OptionsSpec)                            *)

\* C21: headers given in the per-call options of a call take the place of
\* the client's default headers of the same names in the request of that
\* call, the defaults not overridden are sent as they are, the defaults
\* themselves stay as they were, and a call without per-call options
\* carries exactly the defaults
C21_PerCallHeadersOverride ==
    [][\A i \in CallIds :
          Dispatched(i) =>
             LET r == requests'[i]
                 defaults == config[r.client].defaults.headers
                 given == r.options.headers
             IN  /\ DOMAIN r.sent.headers = DOMAIN defaults \cup DOMAIN given
                 /\ \A h \in DOMAIN given : r.sent.headers[h] = given[h]
                 /\ \A h \in DOMAIN defaults \ DOMAIN given :
                       r.sent.headers[h] = defaults[h]
                 /\ config' = config
                 /\ (r.options = NoOptions => r.sent.headers = defaults)]_vars

\* a token is set; one request in flight was issued with a per-call
\* Authorization header and carries it instead of the bearer token, together
\* with the default Accept; another, issued without options, carries the
\* bearer token
C21_Witness ==
    \E i, j \in CallIds :
       /\ requests[i].pc = "pending" /\ requests[j].pc = "pending"
       /\ Authorization(config["apiClient"].defaults.headers) = Bearer("tokenA")
       /\ "Authorization" \in DOMAIN requests[i].options.headers
       /\ Authorization(requests[i].sent.headers) = <<"Basic ", "credentials">>
       /\ requests[i].sent.headers["Accept"] = <<"application/json">>
       /\ requests[j].options = NoOptions
       /\ Authorization(requests[j].sent.headers) = Bearer("tokenA")

-----------------------------------------------------------------------------
(* Termination of the verb calls (LiveSpec)                                *)

\* C24: every dispatched verb call eventually completes, with an Envelope or
\* with a raised error, when the transport answers or fails within the
\* timeout: no call stays pending forever
C24_CallsComplete ==
    \A i \in CallIds :
       (requests[i].pc = "pending")
          ~> (requests[i].pc = "done"
              /\ requests[i].outcome.kind \in {"returned", "raised"})

\* a call that was completed by the expiry of its timeout while another
\* call is still pending
C24_Witness ==
    \E i, j \in CallIds :
       /\ requests[i].pc = "done"
       /\ requests[i].answer = TimeoutAnswer
       /\ requests[i].outcome.kind = "raised"
       /\ requests[j].pc = "pending"

-----------------------------------------------------------------------------
(* Properties of withRetry around verb calls (RetryCallSpec)               *)

RetryInProgress == retry.pc \in {"awaitOp", "delaying"}

\* C23: while a withRetry call is suspended in its backoff wait, that call
\* starts no further attempt before the wait ends (an attempt of a call in
\* progress starts only when the timer of its wait fires, and nothing else
\* changes the call during the wait), while another call on the same client
\* can be dispatched and can complete during the wait
C23_WaitSuspendsOnlyItsCall ==
    /\ [](retry.pc = "delaying" =>
            /\ requests[OtherCall].pc # "pending"
                  => ENABLED Dispatch(OtherCall, RetryClient)
            /\ requests[OtherCall].pc = "pending"
                  => ENABLED TransportAnswers(OtherCall))
    /\ [][/\ retry.pc = "delaying" /\ retry' # retry => DelayElapses
          /\ RetryInProgress /\ retry'.invocations # retry.invocations
                => retry.pc = "delaying"
          /\ retry.pc = "delaying" /\ requests' # requests
                => retry' = retry]_vars

\* C25: a verb call hands its request to the transport exactly once and
\* raises the failure of that one request; only withRetry repeats an
\* operation after a failure, and only while fewer than maxAttempts attempts
\* have been made, each attempt being one verb call
C25_OnlyWithRetryRepeats ==
    /\ \A i \in CallIds :
          /\ requests[i].pc # "free" => requests[i].delegations = 1
          /\ requests[i].pc = "done" /\ ~requests[i].answer.ok
                => requests[i].outcome.kind = "raised"
    /\ retry.invocations <= (IF retry.maxAttempts > 0 THEN retry.maxAttempts ELSE 0)
    /\ RetryInProgress => Len(retry.failures) < retry.maxAttempts
    /\ retry.invocations \in {Len(retry.failures), Len(retry.failures) + 1}
    /\ retry.entry \in VerbEntries => Len(retry.sent) = retry.invocations

\* a verb call has raised the failure of its one request, and a
\* getUserWithRetry(id, 3) has raised after three attempts
C25_Witness ==
    /\ requests[OtherCall].pc = "done"
    /\ ~requests[OtherCall].answer.ok
    /\ requests[OtherCall].delegations = 1
    /\ requests[OtherCall].outcome.kind = "raised"
    /\ retry.pc = "raised"
    /\ retry.maxAttempts = apiRetryAttempts
    /\ retry.invocations = apiRetryAttempts
    /\ Len(retry.failures) = apiRetryAttempts

\* C28: every attempt of getUserWithRetry is a fresh dispatch that reads the
\* configuration current when the attempt starts: its request goes to the
\* address last set and carries the bearer token last set (none after a
\* removal), also when a setter ran during the preceding wait
C28_AttemptReadsCurrentConfig ==
    [][retry'.pc = "awaitOp" /\ retry.pc # "awaitOp"
          => LET request == retry'.sent[Len(retry'.sent)]
                 last == written[RetryClient]
             IN  /\ Len(retry'.sent) = retry'.invocations
                 /\ request.baseURL = last.baseURL
                 /\ Authorization(request.headers)
                       = IF last.token = "none" THEN << >>
                         ELSE Bearer(last.token)
                 /\ retry.pc = "delaying"
                       => \A k \in 1..Len(retry.sent) :
                             retry'.sent[k] = retry.sent[k]]_vars

\* the second attempt of a call carries a token and an address that the
\* first did not: the setters ran in between
C28_Witness ==
    /\ retry.pc = "awaitOp"
    /\ retry.invocations = 2
    /\ Authorization(retry.sent[1].headers) = << >>
    /\ Authorization(retry.sent[2].headers) = Bearer("tokenA")
    /\ retry.sent[1].baseURL = ReqResURL
    /\ retry.sent[2].baseURL = HttpStatURL

\* the call is in its wait; since the wait began another call on the same
\* client was dispatched and has returned its Envelope
C23_Witness ==
    /\ retry.pc = "delaying"
    /\ retry.others = "free"
    /\ requests[OtherCall].pc = "done"
    /\ requests[OtherCall].client = RetryClient
    /\ requests[OtherCall].outcome.kind = "returned"

-----------------------------------------------------------------------------
(* Properties of the MockServer (MockSpec, StartsSpec)                     *)

\* C29: whenever no start() is between its listen and its resolution,
\* isServerRunning() is true exactly when a listener serves the port: true
\* once start() has resolved, false with the port free again once stop()
\* has resolved
C29_FlagMatchesListener ==
    (\A k \in StartIds : mockServer.starts[k] # "bound")
       => (isServerRunning(mockServer) <=> mockServer.listener # 0)

====
